---- MODULE Spec2Model ----
(***************************************************************************)
(* Model of the WebSocket relay broker of src/server.js.                   *)
(*                                                                         *)
(* src/server.js holds two revisions of the server one after the other     *)
(* (lines 1-454 and 455-644).  The state machine below is the first        *)
(* revision, the one with the pairing protocol, logout and the frontend    *)
(* ping sweep.  The second revision shares its reconnect, heartbeat, close *)
(* and device-sweep code line by line (509-570, 593-639).                  *)
(*                                                                         *)
(* Time is Date.now() in milliseconds.  The three JavaScript Maps are      *)
(* sequences of entries in insertion order, as Map iteration sees them.    *)
(* Connections are numbered in the order the server accepts them, which    *)
(* is the iteration order of wss.clients.  The fields `last` / `lastSeen`  *)
(* of a frontendByUserId entry are written and never read; they are left   *)
(* out of the entry.  The first revision reads WebSocket.OPEN from the     *)
(* global WebSocket of the runtime, where it is 1.                         *)
(***************************************************************************)
EXTENDS Integers, Sequences, FiniteSets, TLC

\* ---------------------------------------------------------------- bounds
\* inbound messages per behaviour, and device-sweep periods of clock, in each
\* of the three specifications below
MaxMsgs == 4
MaxDeviceMsgs == 3
MaxDeviceTicks == 4
MaxFrontendMsgs == 3
MaxFrontendTicks == 6

Conn == {1, 2, 3}
ConnSeq == <<1, 2, 3>>
Ssids == {"D1", "D2"}
UserIds == {"U1", "U2"}

\* ------------------------------------------------------ program constants
DeviceTimeout == 15000
DeviceSweepInterval == 5000
FrontendSweepInterval == 15000
OPEN == 1
CONNECTING == OPEN - 1
CLOSING == OPEN + 1
CLOSED == OPEN + 2


\* JavaScript values that are not identifiers
Undefined == "undefined"
Null == "null"
Empty == ""
NullWs == 0
NoTime == 0 - 1
Truthy(v) == v \notin {Undefined, Null, Empty}

\* what a message may carry in data.ssid / data.deviceName and data.userID
SsidInputs == Ssids \cup {Undefined}
UserInputs == UserIds \cup {Undefined}

VARIABLES
    now,                \* Date.now()
    nextDeviceSweep,    \* due time of the 5000 ms interval
    nextFrontendSweep,  \* due time of the 15000 ms interval
    readyState,         \* ws.readyState of each connection
    isAlive,            \* ws.isAlive
    clientType,         \* ws.clientType
    clients,            \* Map ws -> {last, ssid}
    espBySsid,          \* Map ssid -> {ws, userID, stats, last}
    frontendByUserId,   \* Map userID -> {ws, status}
    sent,               \* what the last handler sent, in order
    pinged,             \* connections whose peer holds an unanswered ping
    crashed,            \* a handler threw: the process is gone
    nmsg                \* inbound messages handled so far

vars == <<now, nextDeviceSweep, nextFrontendSweep, readyState, isAlive,
          clientType, clients, espBySsid, frontendByUserId, sent, pinged,
          crashed, nmsg>>

\* ------------------------------------------------------------ JS Map
MapHas(m, k) == \E i \in 1..Len(m) : m[i].key = k
MapIdx(m, k) == CHOOSE i \in 1..Len(m) : m[i].key = k
MapGet(m, k) == m[MapIdx(m, k)]
MapSet(m, k, v) ==
    IF MapHas(m, k) THEN [m EXCEPT ![MapIdx(m, k)] = v] ELSE Append(m, v)
MapDeleteKey(e, k) == e.key # k
\* clear() in place of delete(k)
MapDeleteClears(m, k) == SelectSeq(m, LAMBDA e : FALSE)
MapDelete(m, k) == SelectSeq(m, LAMBDA e : MapDeleteKey(e, k))
MapKeys(m) == {m[i].key : i \in 1..Len(m)}

\* ------------------------------------------------------------ ws library
WssClients(rs) == {c \in Conn : rs[c] \in {OPEN, CLOSING}}
Terminate(rs, c) == IF rs[c] = CLOSED THEN rs ELSE [rs EXCEPT ![c] = CLOSING]

Msg(type, dev, user, text) ==
    [type |-> type, dev |-> dev, user |-> user, text |-> text]
Out(c, m) == [to |-> c, msg |-> m]

RECURSIVE SendEach(_, _)
SendEach(cs, m) ==
    IF cs = <<>> THEN <<>> ELSE <<Out(Head(cs), m)>> \o SendEach(Tail(cs), m)

\* wss.clients.forEach(client => { if (client.readyState === OPEN) send })
Broadcast(rs, m) ==
    SendEach(SelectSeq(ConnSeq, LAMBDA c : rs[c] = OPEN), m)
\* the loop without the client !== ws test
BroadcastWithSender(rs, ws, m) ==
    SendEach(SelectSeq(ConnSeq, LAMBDA c : rs[c] = OPEN), m)

\* the same, skipping the sender
BroadcastOthers(rs, ws, m) ==
    SendEach(SelectSeq(ConnSeq, LAMBDA c : c # ws /\ rs[c] = OPEN), m)

\* ------------------------------------------------------------ Init
Init ==
    /\ now = 0
    /\ nextDeviceSweep = DeviceSweepInterval
    /\ nextFrontendSweep = FrontendSweepInterval
    /\ readyState = [c \in Conn |-> CONNECTING]
    /\ isAlive = [c \in Conn |-> TRUE]
    /\ clientType = [c \in Conn |-> "unknown"]
    /\ clients = <<>>
    /\ espBySsid = <<>>
    /\ frontendByUserId = <<>>
    /\ sent = <<>>
    /\ pinged = {}
    /\ crashed = FALSE
    /\ nmsg = 0

\* ------------------------------------------------------------ connection
\* wss.on("connection")
Connection(ws) ==
    /\ ~crashed
    /\ readyState[ws] = CONNECTING
    /\ \A c \in Conn : c < ws => readyState[c] # CONNECTING
    /\ readyState' = [readyState EXCEPT ![ws] = OPEN]
    /\ isAlive' = [isAlive EXCEPT ![ws] = TRUE]
    /\ clientType' = [clientType EXCEPT ![ws] = "unknown"]
    /\ sent' = <<>>
    /\ UNCHANGED <<now, nextDeviceSweep, nextFrontendSweep, clients,
                   espBySsid, frontendByUserId, pinged, crashed, nmsg>>

\* ws.on("pong")
Pong(ws) ==
    /\ ~crashed
    /\ readyState[ws] = OPEN
    /\ ws \in pinged
    /\ isAlive' = [isAlive EXCEPT ![ws] = TRUE]
    /\ pinged' = pinged \ {ws}
    /\ sent' = <<>>
    /\ UNCHANGED <<now, nextDeviceSweep, nextFrontendSweep, readyState,
                   clientType, clients, espBySsid, frontendByUserId, crashed,
                   nmsg>>

\* every ws.on("message") handler runs on an open connection
Receive(ws) ==
    /\ ~crashed
    /\ readyState[ws] = OPEN
    /\ nmsg' = nmsg + 1

\* ------------------------------------------------------------ reconnect
\* oldInfo?.userID
OldUserID(esp, d) == IF MapHas(esp, d) THEN MapGet(esp, d).userID ELSE Undefined

\* the operands the other way round: data.userID || oldInfo?.userID || ""
ResolveOwnerClaimedFirst(oldUser, claimed) ==
    IF Truthy(claimed) THEN claimed
    ELSE IF Truthy(oldUser) THEN oldUser ELSE Empty

\* oldInfo?.userID || data.userID || ""
ResolveOwner(oldUser, claimed) ==
    IF Truthy(oldUser) THEN oldUser
    ELSE IF Truthy(claimed) THEN claimed ELSE Empty

\* a reconnect loop that skips every entry (the test never matches)
DuplicatesNeverMatch(cl, d, ws) ==
    {cl[i].key : i \in {j \in 1..Len(cl) : cl[j].ssid = d /\ cl[j].key = NullWs}}

\* the registry entries the reconnect loop deletes and terminates
Duplicates(cl, d, ws) ==
    {cl[i].key : i \in {j \in 1..Len(cl) : cl[j].ssid = d /\ cl[j].key # ws}}

TerminateAll(rs, S) ==
    [c \in Conn |-> IF c \in S THEN Terminate(rs, c)[c] ELSE rs[c]]

EspOnline(d, ws, owner, t) ==
    [key |-> d, ws |-> ws, userID |-> owner, stats |-> "online", last |-> t]
\* the record with the connection kept: { ...espInfo, stats: "offline" }
EspOfflineKeepsWs(espInfo) ==
    [espInfo EXCEPT !.stats = "offline", !.last = NoTime]

\* the record without the owner: { ws: null, stats: "offline", userID: "" }
EspOfflineForgetsOwner(espInfo) ==
    [key |-> espInfo.key, ws |-> NullWs, userID |-> Empty,
     stats |-> "offline", last |-> NoTime]

\* { ws: null, stats: "offline", userID: espInfo.userID || "" }
EspOffline(espInfo) ==
    [key |-> espInfo.key, ws |-> NullWs,
     userID |-> IF Truthy(espInfo.userID) THEN espInfo.userID ELSE Empty,
     stats |-> "offline", last |-> NoTime]
ClientEntry(ws, t, d) == [key |-> ws, last |-> t, ssid |-> d]

\* data.type === "reconnect"
Reconnect(ws, d, u) ==
    LET owner == ResolveOwner(OldUserID(espBySsid, d), u)
        dups == Duplicates(clients, d, ws)
        rs == TerminateAll(readyState, dups)
    IN  /\ Receive(ws)
        /\ espBySsid' = MapSet(espBySsid, d, EspOnline(d, ws, owner, now))
        /\ clients' = MapSet(SelectSeq(clients, LAMBDA e : e.key \notin dups),
                             ws, ClientEntry(ws, now, d))
        /\ readyState' = rs
        /\ sent' = IF rs[ws] = OPEN
                   THEN <<Out(ws, Msg("connection", d, owner, "sayHello"))>>
                   ELSE <<>>
        /\ UNCHANGED <<now, nextDeviceSweep, nextFrontendSweep, isAlive,
                       clientType, frontendByUserId, pinged, crashed>>

\* ------------------------------------------------------------ heartbeat
\* oldInfo?.userID || null
HeartbeatOwner(oldUser) == IF Truthy(oldUser) THEN oldUser ELSE Null

\* data.type === "heartbeat"
Heartbeat(ws, d) ==
    /\ Receive(ws)
    /\ clientType' = [clientType EXCEPT ![ws] = "esp"]
    /\ clients' = MapSet(clients, ws, ClientEntry(ws, now, d))
    /\ espBySsid' = MapSet(espBySsid, d,
            EspOnline(d, ws, HeartbeatOwner(OldUserID(espBySsid, d)), now))
    /\ sent' = BroadcastOthers(readyState, ws,
            Msg("status", d, Undefined, "online"))
    /\ UNCHANGED <<now, nextDeviceSweep, nextFrontendSweep, readyState,
                   isAlive, frontendByUserId, pinged, crashed>>

\* ------------------------------------------------------------ accStatus
FrontendEntry(u, ws, status) == [key |-> u, ws |-> ws, status |-> status]

\* data.type === "accStatus" && data.userID
AccStatus(ws, u) ==
    /\ Receive(ws)
    /\ IF Truthy(u)
       THEN /\ clientType' = [clientType EXCEPT ![ws] = "frontend"]
            /\ frontendByUserId' =
                   MapSet(frontendByUserId, u, FrontendEntry(u, ws, "online"))
       ELSE UNCHANGED <<clientType, frontendByUserId>>
    /\ sent' = <<>>
    /\ UNCHANGED <<now, nextDeviceSweep, nextFrontendSweep, readyState,
                   isAlive, clients, espBySsid, pinged, crashed>>

\* ------------------------------------------------------------ logout
\* { ...userInfo, status: "offline", last }
\* a logout that flips the status instead of setting it
LoggedOutToggles(userInfo) ==
    [userInfo EXCEPT !.status = IF @ = "offline" THEN "online" ELSE "offline"]

LoggedOut(userInfo) == [userInfo EXCEPT !.status = "offline"]

\* data.type === "logout" && data.userID
Logout(ws, u) ==
    /\ Receive(ws)
    /\ frontendByUserId' =
           IF Truthy(u) /\ MapHas(frontendByUserId, u)
           THEN MapSet(frontendByUserId, u, LoggedOut(MapGet(frontendByUserId, u)))
           ELSE frontendByUserId
    /\ sent' = <<>>
    /\ UNCHANGED <<now, nextDeviceSweep, nextFrontendSweep, readyState,
                   isAlive, clientType, clients, espBySsid, pinged, crashed>>


\* ------------------------------------------------------------ deviceSelected
\* frontend && frontend.ws.readyState === 1
FrontendOpen(front, rs, u) ==
    MapHas(front, u) /\ MapGet(front, u).ws # NullWs
                     /\ rs[MapGet(front, u).ws] = OPEN
SendToFrontend(front, rs, u, m) ==
    IF FrontendOpen(front, rs, u) THEN <<Out(MapGet(front, u).ws, m)>> ELSE <<>>

\* espInfo && espInfo.ws && espInfo.ws.readyState === WebSocket.OPEN
EspOpen(esp, rs, d) ==
    MapHas(esp, d) /\ MapGet(esp, d).ws # NullWs /\ rs[MapGet(esp, d).ws] = OPEN

\* espInfo && espInfo.userID
HasOwner(esp, d) == MapHas(esp, d) /\ Truthy(MapGet(esp, d).userID)

\* accInfo.status on frontendByUserId.get(espInfo.userID): a TypeError when the
\* owner has no entry
OwnerLookupThrows(esp, front, d) ==
    HasOwner(esp, d) /\ ~MapHas(front, MapGet(esp, d).userID)

\* the status test the other way round: accInfo.status !== "online"
ConflictWhenOffline(esp, front, d) ==
    /\ HasOwner(esp, d)
    /\ MapHas(front, MapGet(esp, d).userID)
    /\ MapGet(front, MapGet(esp, d).userID).status # "online"

\* accInfo.status === "online"
Conflict(esp, front, d) ==
    /\ HasOwner(esp, d)
    /\ MapHas(front, MapGet(esp, d).userID)
    /\ MapGet(front, MapGet(esp, d).userID).status = "online"

LinkMsg(d, u) == Msg("command", d, u, "Device successfully linked to account.")
BusyMsg(d) == Msg("deviceStatus", d, Undefined, "The device is already connected")

\* espInfo.userID = data.userID; espBySsid.set(data.deviceName, espInfo)
SetOwner(esp, d, u) == MapSet(esp, d, [MapGet(esp, d) EXCEPT !.userID = u])

\* data.type === "deviceSelected"
DeviceSelected(ws, d, u) ==
    /\ Receive(ws)
    /\ IF OwnerLookupThrows(espBySsid, frontendByUserId, d)
       THEN /\ crashed' = TRUE
            /\ sent' = <<>>
            /\ UNCHANGED espBySsid
       ELSE IF Conflict(espBySsid, frontendByUserId, d)
       THEN /\ sent' = SendToFrontend(frontendByUserId, readyState, u, BusyMsg(d))
            /\ UNCHANGED <<espBySsid, crashed>>
       ELSE IF EspOpen(espBySsid, readyState, d)
       THEN /\ espBySsid' = SetOwner(espBySsid, d, u)
            /\ sent' = <<Out(MapGet(espBySsid, d).ws, LinkMsg(d, u))>> \o
                       SendToFrontend(frontendByUserId, readyState, u, LinkMsg(d, u))
            /\ UNCHANGED crashed
       ELSE /\ sent' = <<>>
            /\ UNCHANGED <<espBySsid, crashed>>
    /\ UNCHANGED <<now, nextDeviceSweep, nextFrontendSweep, readyState,
                   isAlive, clientType, clients, frontendByUserId, pinged>>

\* ------------------------------------------------------------ connection query
\* findSsidByUserId: the first entry, in insertion order, owned by userId
OwnedIdx(esp, u) == {i \in 1..Len(esp) : esp[i].userID = u}
FirstOwned(S) == CHOOSE i \in S : \A j \in S : i <= j
findSsidByUserId(esp, u) == esp[FirstOwned(OwnedIdx(esp, u))]

\* the reply without the status test: message: "Connected" for any owned device
DeviceConnectionMsgIgnoresStats(esp, u) ==
    IF OwnedIdx(esp, u) # {}
    THEN Msg("deviceConnection", findSsidByUserId(esp, u).key, Undefined, "Connected")
    ELSE Msg("deviceConnection", Empty, Undefined, "Not connected")

DeviceConnectionMsg(esp, u) ==
    IF OwnedIdx(esp, u) # {}
    THEN Msg("deviceConnection", findSsidByUserId(esp, u).key, Undefined,
             IF findSsidByUserId(esp, u).stats = "online"
             THEN "Connected" ELSE "Not connected")
    ELSE Msg("deviceConnection", Empty, Undefined, "Not connected")

\* data.type === "connection"
ConnectionQuery(ws, u) ==
    /\ Receive(ws)
    /\ sent' = SendToFrontend(frontendByUserId, readyState, u,
                              DeviceConnectionMsg(espBySsid, u))
    /\ UNCHANGED <<now, nextDeviceSweep, nextFrontendSweep, readyState,
                   isAlive, clientType, clients, espBySsid, frontendByUserId,
                   pinged, crashed>>

\* data.type === "nfc"
Nfc(ws, u) ==
    /\ Receive(ws)
    /\ sent' = SendToFrontend(frontendByUserId, readyState, u,
                              Msg("nfcEvent", Undefined, Undefined, "NFC tag detected"))
    /\ UNCHANGED <<now, nextDeviceSweep, nextFrontendSweep, readyState,
                   isAlive, clientType, clients, espBySsid, frontendByUserId,
                   pinged, crashed>>

\* ------------------------------------------------------------ other payloads
\* "garbage": JSON.parse throws, the empty catch leaves data undefined
\* "null":    JSON.parse yields null
\* "notype":  an object without a type field
\* "other":   an object whose type is none of the seven
Payloads == {"garbage", "null", "notype", "other"}

\* data.type on what JSON.parse left in data
TypeReadThrows(payload) == payload \in {"garbage", "null"}

Unrouted(ws, payload) ==
    /\ Receive(ws)
    /\ crashed' = TypeReadThrows(payload)
    /\ sent' = <<>>
    /\ UNCHANGED <<now, nextDeviceSweep, nextFrontendSweep, readyState,
                   isAlive, clientType, clients, espBySsid, frontendByUserId,
                   pinged>>

\* ------------------------------------------------------------ close
\* { ...info, status: "offline", lastSeen }
MarkedOffline(info) == [info EXCEPT !.status = "offline"]

\* for (... of frontendByUserId.entries()) { if (info.ws === ws) { ...; break } }
BoundUsers(front, ws) == {i \in 1..Len(front) : front[i].ws = ws}
CloseFrontends(front, ws) ==
    IF BoundUsers(front, ws) = {} THEN front
    ELSE [front EXCEPT ![FirstOwned(BoundUsers(front, ws))] = MarkedOffline(@)]

\* const info = clients.get(ws); if (info?.ssid) { ... }
CloseDevice(esp, cl, ws) ==
    IF /\ MapHas(cl, ws)
       /\ Truthy(MapGet(cl, ws).ssid)
       /\ MapHas(esp, MapGet(cl, ws).ssid)
    THEN MapSet(esp, MapGet(cl, ws).ssid,
                EspOffline(MapGet(esp, MapGet(cl, ws).ssid)))
    ELSE esp

\* ws.on("close"): the peer closed or the transport dropped (the handle was
\* OPEN), or the server terminated the handle earlier (it was CLOSING); the
\* handle leaves wss.clients
Close(ws) ==
    /\ ~crashed
    /\ readyState[ws] \in {OPEN, CLOSING}
    /\ readyState' = [readyState EXCEPT ![ws] = CLOSED]
    /\ frontendByUserId' = CloseFrontends(frontendByUserId, ws)
    /\ espBySsid' = CloseDevice(espBySsid, clients, ws)
    /\ clients' = MapDelete(clients, ws)
    /\ pinged' = pinged \ {ws}
    /\ sent' = <<>>
    /\ UNCHANGED <<now, nextDeviceSweep, nextFrontendSweep, isAlive,
                   clientType, crashed, nmsg>>

\* ------------------------------------------------------------ timers
\* An interval callback runs when the clock reaches its due time, the earlier
\* due time first.  Between callbacks Date.now() is read on the grid of the
\* device sweep: a stamp taken anywhere in [5000k, 5000(k+1)) first satisfies
\* now - last > 15000 at the sweep of 5000(k+4), as the stamp 5000k does.
TimerDue(due, other) == due <= other

\* ------------------------------------------------------------ device sweep
\* now - data.last > 15000
Stale(e, t) == t - e.last > DeviceTimeout

OfflineMsg(d) == Msg("status", d, Undefined, "offline")

\* the body of clients.forEach for one stale entry
SweepEntry(e, st) ==
    [rs  |-> Terminate(st.rs, e.key),
     cl  |-> MapDelete(st.cl, e.key),
     esp |-> IF MapHas(st.esp, e.ssid)
             THEN MapSet(st.esp, e.ssid, EspOffline(MapGet(st.esp, e.ssid)))
             ELSE st.esp,
     out |-> st.out \o Broadcast(st.rs, OfflineMsg(e.ssid))]

RECURSIVE SweepEntries(_, _, _)
SweepEntries(todo, t, st) ==
    IF todo = <<>> THEN st
    ELSE SweepEntries(Tail(todo), t,
                      IF Stale(Head(todo), t) THEN SweepEntry(Head(todo), st) ELSE st)

\* setInterval(..., 5000)
DeviceSweep ==
    LET st == SweepEntries(clients, nextDeviceSweep,
                  [rs |-> readyState, cl |-> clients, esp |-> espBySsid, out |-> <<>>])
    IN  /\ ~crashed
        /\ TimerDue(nextDeviceSweep, nextFrontendSweep)
        /\ now' = nextDeviceSweep
        /\ nextDeviceSweep' = nextDeviceSweep + DeviceSweepInterval
        /\ readyState' = st.rs
        /\ clients' = st.cl
        /\ espBySsid' = st.esp
        /\ sent' = st.out
        /\ UNCHANGED <<nextFrontendSweep, isAlive, clientType,
                       frontendByUserId, pinged, crashed, nmsg>>

\* ------------------------------------------------------------ frontend sweep
UserOfflineMsg(u) == Msg("status", Undefined, u, "offline")

\* the test without the connection: info.status === "online"
LostUserAnyConnection(info, ws) == info.status = "online"

\* info.ws === ws && info.status === "online"
LostUser(info, ws) == info.ws = ws /\ info.status = "online"

\* for (const [userID, info] of frontendByUserId.entries()) { ... }
RECURSIVE MarkLost(_, _, _, _, _)
MarkLost(front, i, ws, rs, out) ==
    IF i > Len(front) THEN [front |-> front, out |-> out]
    ELSE IF LostUser(front[i], ws)
    THEN MarkLost([front EXCEPT ![i] = MarkedOffline(@)], i + 1, ws, rs,
                  out \o Broadcast(rs, UserOfflineMsg(front[i].key)))
    ELSE MarkLost(front, i + 1, ws, rs, out)

\* the body of wss.clients.forEach for one connection
PingOne(ws, st) ==
    IF st.type[ws] # "frontend" THEN st
    ELSE IF ~st.alive[ws]
    THEN [st EXCEPT !.front = MarkLost(st.front, 1, ws, st.rs, st.out).front,
                    !.out = MarkLost(st.front, 1, ws, st.rs, st.out).out,
                    !.rs = Terminate(st.rs, ws)]
    ELSE [st EXCEPT !.alive = [st.alive EXCEPT ![ws] = FALSE],
                    !.pinged = IF st.rs[ws] = OPEN THEN st.pinged \cup {ws}
                               ELSE st.pinged]

RECURSIVE PingEach(_, _)
PingEach(todo, st) ==
    IF todo = <<>> THEN st ELSE PingEach(Tail(todo), PingOne(Head(todo), st))

\* setInterval(..., 15000)
FrontendSweep ==
    LET st == PingEach(SelectSeq(ConnSeq, LAMBDA c : c \in WssClients(readyState)),
                  [rs |-> readyState, alive |-> isAlive, type |-> clientType,
                   front |-> frontendByUserId, pinged |-> pinged, out |-> <<>>])
    IN  /\ ~crashed
        /\ TimerDue(nextFrontendSweep, nextDeviceSweep)
        /\ now' = nextFrontendSweep
        /\ nextFrontendSweep' = nextFrontendSweep + FrontendSweepInterval
        /\ readyState' = st.rs
        /\ isAlive' = st.alive
        /\ frontendByUserId' = st.front
        /\ pinged' = st.pinged
        /\ sent' = st.out
        /\ UNCHANGED <<nextDeviceSweep, clientType, clients, espBySsid,
                       crashed, nmsg>>

\* ------------------------------------------------------------ environment
\* The identifiers a peer may put in a message: every identifier the server
\* has seen, and the first one it has not.  The handlers treat identifiers
\* alike, so a behaviour that introduces D2 before D1 (U2 before U1) is a
\* renaming of one that is explored.
FirstFresh(ids, known) ==
    LET fresh == {i \in 1..Len(ids) : ids[i] \notin known}
    IN  {ids[i] : i \in {j \in fresh : \A k \in fresh : j <= k}}
KnownSsids == MapKeys(espBySsid) \cap Ssids
KnownUsers ==
    (MapKeys(frontendByUserId) \cup
     {espBySsid[i].userID : i \in 1..Len(espBySsid)}) \cap UserIds
SsidChoices == KnownSsids \cup FirstFresh(<<"D1", "D2">>, KnownSsids)
UserChoices == KnownUsers \cup FirstFresh(<<"U1", "U2">>, KnownUsers)
                          \cup {Undefined}

Before(t) == nextDeviceSweep <= t * DeviceSweepInterval

\* ------------------------------------------------------------ Spec
\* The message router: every ws.on("message") branch, connection and close.
Next ==
    \/ \E ws \in Conn : Connection(ws)
    \/ nmsg < MaxMsgs /\ \E ws \in Conn, d \in SsidChoices, u \in UserChoices :
            Reconnect(ws, d, u)
    \/ nmsg < MaxMsgs /\ \E ws \in Conn, d \in SsidChoices : Heartbeat(ws, d)
    \/ nmsg < MaxMsgs /\ \E ws \in Conn, u \in UserChoices : AccStatus(ws, u)
    \/ nmsg < MaxMsgs /\ \E ws \in Conn, u \in UserChoices : Logout(ws, u)
    \/ nmsg < MaxMsgs /\ \E ws \in Conn, d \in SsidChoices, u \in UserChoices :
            DeviceSelected(ws, d, u)
    \/ nmsg < MaxMsgs /\ \E ws \in Conn, u \in UserChoices : ConnectionQuery(ws, u)
    \/ nmsg < MaxMsgs /\ \E ws \in Conn, u \in UserChoices : Nfc(ws, u)
    \/ nmsg < MaxMsgs /\ \E ws \in Conn, p \in Payloads : Unrouted(ws, p)
    \/ \E ws \in Conn : Close(ws)

Spec == Init /\ [][Next]_vars

\* ------------------------------------------------------------ SpecDevices
\* The device side under the clock: announcements, close and the two interval
\* callbacks, on two connections.
NextDevices ==
    \/ \E ws \in {1, 2} : Connection(ws)
    \/ nmsg < MaxDeviceMsgs /\ \E ws \in Conn, d \in SsidChoices, u \in UserChoices :
            Reconnect(ws, d, u)
    \/ nmsg < MaxDeviceMsgs /\ \E ws \in Conn, d \in SsidChoices : Heartbeat(ws, d)
    \/ \E ws \in Conn : Close(ws)
    \/ Before(MaxDeviceTicks) /\ DeviceSweep
    \/ Before(MaxDeviceTicks) /\ FrontendSweep

SpecDevices == Init /\ [][NextDevices]_vars

\* ------------------------------------------------------------ SpecFrontends
\* The frontend side under the clock: registration, logout, pong, close and
\* the two interval callbacks.
NextFrontends ==
    \/ \E ws \in Conn : Connection(ws)
    \/ \E ws \in Conn : Pong(ws)
    \/ nmsg < MaxFrontendMsgs /\ \E ws \in Conn, u \in UserChoices : AccStatus(ws, u)
    \/ nmsg < MaxFrontendMsgs /\ \E ws \in Conn, u \in UserChoices : Logout(ws, u)
    \/ \E ws \in Conn : Close(ws)
    \/ Before(MaxFrontendTicks) /\ DeviceSweep
    \/ Before(MaxFrontendTicks) /\ FrontendSweep

SpecFrontends == Init /\ [][NextFrontends]_vars

\* ============================================================ claims
BoundTo(cl, d) == {cl[i].key : i \in {j \in 1..Len(cl) : cl[j].ssid = d}}

\* C1: once a reconnect bearing D is handled on connection ws, ws is the one
\* registry entry bound to D, every other connection that was bound to D in
\* the registry is terminated and evicted, and D's session references ws.
C1_After(ws, d) ==
    /\ BoundTo(clients', d) = {ws}
    /\ \A x \in BoundTo(clients, d) \ {ws} :
           readyState'[x] # OPEN /\ ~MapHas(clients', x)
    /\ MapHas(espBySsid', d) /\ MapGet(espBySsid', d).ws = ws
C1_NewestWins ==
    [][\A ws \in Conn, d \in Ssids, u \in UserInputs :
           Reconnect(ws, d, u) => C1_After(ws, d)]_vars

\* C1 witness: the third connection has just reconnected as D, and the two
\* connections bound to D before it are terminated and out of the registry.
C1_Witness ==
    \E d \in Ssids :
        /\ Len(sent) = 1 /\ sent[1].msg.text = "sayHello" /\ sent[1].msg.dev = d
        /\ sent[1].to = 3
        /\ MapGet(espBySsid, d).ws = 3
        /\ readyState[1] = CLOSING /\ readyState[2] = CLOSING
        /\ MapKeys(clients) = {3}

\* ownerUserId of a session; "", null and undefined all mean "no owner"
Owner(e) == IF Truthy(e.userID) THEN e.userID ELSE Empty

\* C2 as stated: no step of close, device sweep or reconnect (no deviceSelected
\* exists in SpecDevices) changes the ownerUserId of an existing session.
C2_OwnerNeverChanges ==
    [][\A d \in Ssids : MapHas(espBySsid, d) =>
           /\ MapHas(espBySsid', d)
           /\ Owner(MapGet(espBySsid', d)) = Owner(MapGet(espBySsid, d))]_vars

\* C2 amended: a non-empty ownerUserId survives every close, device-sweep
\* timeout and reconnect; an empty one is changed only by a reconnect bearing
\* a user identifier, which becomes the owner.
C2_OwnerSticky ==
    [][\A d \in Ssids : MapHas(espBySsid, d) =>
           /\ MapHas(espBySsid', d)
           /\ Truthy(MapGet(espBySsid, d).userID) =>
                  MapGet(espBySsid', d).userID = MapGet(espBySsid, d).userID
           /\ (~Truthy(MapGet(espBySsid, d).userID)
                  /\ Truthy(MapGet(espBySsid', d).userID)) =>
                  \E ws \in Conn, u \in UserIds :
                      /\ Reconnect(ws, d, u)
                      /\ MapGet(espBySsid', d).userID = u]_vars

\* C2 witness: the device sweep has just timed out an owned device (the
\* offline notice went out, the session lost its connection) and the owner
\* is still recorded.
C2_Witness ==
    \E d \in Ssids :
        /\ \E i \in 1..Len(sent) : sent[i].msg = OfflineMsg(d)
        /\ MapHas(espBySsid, d)
        /\ MapGet(espBySsid, d).ws = NullWs
        /\ MapGet(espBySsid, d).userID \in UserIds

\* device d is owned by user a, a is not b, and a's FrontendSession is online
OwnedOnlineBy(d, a, b) ==
    /\ MapHas(espBySsid, d) /\ MapGet(espBySsid, d).userID = a
    /\ a # b
    /\ MapHas(frontendByUserId, a)
    /\ MapGet(frontendByUserId, a).status = "online"

\* C3: a deviceSelected from b for a device owned by another user a whose
\* FrontendSession is online leaves every session as it was (the owner stays
\* a); the one message sent, if any, is the unavailable notice, and it goes to
\* b's frontend connection: it is sent exactly when that connection is open.
C3_After(d, b) ==
    /\ espBySsid' = espBySsid
    /\ frontendByUserId' = frontendByUserId
    /\ clients' = clients /\ readyState' = readyState
    /\ ~crashed'
    /\ \A i \in 1..Len(sent') :
           /\ sent'[i].msg.type = "deviceStatus" /\ sent'[i].msg.dev = d
           /\ MapHas(frontendByUserId, b)
           /\ sent'[i].to = MapGet(frontendByUserId, b).ws
    /\ Len(sent') =
           IF /\ MapHas(frontendByUserId, b)
              /\ readyState[MapGet(frontendByUserId, b).ws] = OPEN
           THEN 1 ELSE 0
C3_ConflictNotifiesRequester ==
    [][\A d \in Ssids, a \in UserIds, b \in UserInputs :
           (OwnedOnlineBy(d, a, b) /\ \E ws \in Conn : DeviceSelected(ws, d, b))
               => C3_After(d, b)]_vars

\* C3 witness: the unavailable notice has just gone to b's connection, while
\* the device, its online owner a and b sit on three different open
\* connections and a still owns the device.
C3_Witness ==
    \E d \in Ssids, a, b \in UserIds :
        /\ OwnedOnlineBy(d, a, b)
        /\ MapHas(frontendByUserId, b)
        /\ sent = <<Out(MapGet(frontendByUserId, b).ws, BusyMsg(d))>>
        /\ Cardinality({MapGet(espBySsid, d).ws, MapGet(frontendByUserId, a).ws,
                        MapGet(frontendByUserId, b).ws}) = 3
        /\ \A c \in Conn : readyState[c] = OPEN

\* C4 as stated: a deviceSelected from u that names an announced device not
\* owned by another user with an online FrontendSession (and that the handler
\* completes) makes u the owner and sends the link confirmation to the
\* device's connection if it is open and to u's frontend connection if it is
\* open.
C4_After(d, u) ==
    /\ MapGet(espBySsid', d).userID = u
    /\ EspOpen(espBySsid, readyState, d) =>
           \E i \in 1..Len(sent') :
               sent'[i] = Out(MapGet(espBySsid, d).ws, LinkMsg(d, u))
    /\ FrontendOpen(frontendByUserId, readyState, u) =>
           \E i \in 1..Len(sent') :
               sent'[i] = Out(MapGet(frontendByUserId, u).ws, LinkMsg(d, u))
C4_PairingLinks ==
    [][\A d \in Ssids, u \in UserIds :
           (/\ MapHas(espBySsid, d)
            /\ ~\E a \in UserIds : OwnedOnlineBy(d, a, u)
            /\ \E ws \in Conn : DeviceSelected(ws, d, u)
            /\ ~crashed')
               => C4_After(d, u)]_vars

\* C5 as stated: when a device sweep has run, no session is still online whose
\* last heartbeat or reconnect is more than the 15000 ms threshold old: it is
\* offline with its connection cleared, and the connection it referenced is
\* terminated and out of the registry.
C5_TimedOut(e, t) == e.stats = "online" /\ t - e.last > DeviceTimeout
C5_SweepReclaims ==
    [][DeviceSweep =>
           \A d \in Ssids :
               (MapHas(espBySsid, d) /\ C5_TimedOut(MapGet(espBySsid, d), now')) =>
                   /\ MapGet(espBySsid', d).stats = "offline"
                   /\ MapGet(espBySsid', d).ws = NullWs
                   /\ readyState'[MapGet(espBySsid, d).ws] # OPEN
                   /\ ~MapHas(clients', MapGet(espBySsid, d).ws)]_vars

\* C6 as stated: the device sweep takes a session from online to offline only
\* if the last heartbeat or reconnect bearing its identifier, on whatever
\* connection, is more than the 15000 ms threshold old at the sweep.
C6_SweepOnlyStale ==
    [][DeviceSweep =>
           \A d \in Ssids :
               (/\ MapHas(espBySsid, d)
                /\ MapGet(espBySsid, d).stats = "online"
                /\ MapGet(espBySsid', d).stats = "offline") =>
                   now' - MapGet(espBySsid, d).last > DeviceTimeout]_vars

\* a connection the frontend sweep finds connected, tagged frontend, with the
\* probe of the previous tick unanswered
C7_Unanswered(c) ==
    c \in pinged /\ c \in WssClients(readyState) /\ clientType[c] = "frontend"

\* the offline notice for user u went to c if c was open, and to every
\* connection still open after the sweep
C7_Noticed(c, u) ==
    /\ readyState[c] = OPEN =>
           \E i \in 1..Len(sent') : sent'[i] = Out(c, UserOfflineMsg(u))
    /\ \A x \in Conn : readyState'[x] = OPEN =>
           \E i \in 1..Len(sent') : sent'[i] = Out(x, UserOfflineMsg(u))

\* a connection with no probe outstanding is left alone by the sweep
C7_Spared(c) ==
    (readyState[c] = OPEN /\ c \notin pinged) =>
        /\ readyState'[c] = OPEN
        /\ \A i \in 1..Len(frontendByUserId) :
               frontendByUserId[i].ws = c =>
                   frontendByUserId'[i] = frontendByUserId[i]

C8_DeviceConnectionLive ==
    \A i \in 1..Len(espBySsid) :
        espBySsid[i].ws # NullWs =>
            /\ readyState[espBySsid[i].ws] = OPEN
            /\ BoundTo(clients, espBySsid[i].key) = {espBySsid[i].ws}

\* the FrontendSession of user u is retained, offline and detached
C9_Detached(u) ==
    /\ MapHas(frontendByUserId', u)
    /\ MapGet(frontendByUserId', u).status = "offline"
    /\ MapGet(frontendByUserId', u).ws = NullWs

\* C9 as stated: after a logout for user U, after the close of the connection
\* bound to U's FrontendSession, and after a failed ping of that connection,
\* U's session is retained with status offline and a null connection.
C9_OfflineClearsConnection ==
    [][\A u \in UserIds : MapHas(frontendByUserId, u) =>
           /\ (\E ws \in Conn : Logout(ws, u)) => C9_Detached(u)
           /\ Close(MapGet(frontendByUserId, u).ws) => C9_Detached(u)
           /\ (FrontendSweep /\ C7_Unanswered(MapGet(frontendByUserId, u).ws))
                  => C9_Detached(u)]_vars

\* C10 as stated: a payload that cannot be parsed, or whose type is missing
\* or unrecognised, changes neither the registry nor the directories, sends
\* nothing, and raises no error.
C10_DroppedSilently ==
    [][\A ws \in Conn : \A payload \in Payloads :
           Unrouted(ws, payload) =>
               /\ UNCHANGED <<clients, espBySsid, frontendByUserId>>
               /\ sent' = <<>>
               /\ ~crashed']_vars

\* a step that handles a message of one of the seven recognised types
C11_WellFormed ==
    \E ws \in Conn :
        \/ \E d \in Ssids, u \in UserInputs :
               Reconnect(ws, d, u) \/ DeviceSelected(ws, d, u)
        \/ \E d \in Ssids : Heartbeat(ws, d)
        \/ \E u \in UserInputs :
               AccStatus(ws, u) \/ Logout(ws, u) \/ ConnectionQuery(ws, u) \/ Nfc(ws, u)

\* C11 as stated: every well-formed message is handled to completion without
\* a fatal error, also a deviceSelected naming a device whose recorded owner
\* has no FrontendSession.
C11_HandlersComplete ==
    [][C11_WellFormed => ~crashed']_vars

\* device d is online on the open connection c, which the registry binds to d
C12_DeviceUp(c, d) ==
    /\ MapHas(espBySsid, d)
    /\ MapGet(espBySsid, d).ws = c /\ MapGet(espBySsid, d).stats = "online"
    /\ readyState[c] = OPEN
    /\ MapHas(clients, c) /\ MapGet(clients, c).ssid = d

\* user u is online on the open connection f
C12_FrontendUp(f, u) ==
    /\ MapHas(frontendByUserId, u)
    /\ MapGet(frontendByUserId, u) = FrontendEntry(u, f, "online")
    /\ readyState[f] = OPEN

\* d is the one device owned by u
C12_Owns(u, d) ==
    {espBySsid[i].key : i \in OwnedIdx(espBySsid, u)} = {d}

C12_Linked(c, f, d, u) ==
    \E i, j \in 1..Len(sent') :
        /\ sent'[i] = Out(c, Msg("command", d, u, "Device successfully linked to account."))
        /\ sent'[j] = Out(f, Msg("command", d, u, "Device successfully linked to account."))

C12_Reply(f, d, text) == <<Out(f, Msg("deviceConnection", d, Undefined, text))>>

\* C12: the pairing scenario step by step.  reconnect{ssid:D} on a fresh
\* server leaves D online without owner; accStatus{U} on another connection
\* leaves U online; deviceSelected{D,U} then makes U the owner and sends the
\* link confirmation to both connections; a connection{U} query answers D
\* "Connected"; the close of the device connection leaves D offline, owned by
\* U; a further query answers D "Not connected".
C12_Scenario ==
    [][\A d \in Ssids, u \in UserIds :
        /\ espBySsid = <<>> =>
               \A c \in Conn : Reconnect(c, d, Undefined) =>
                   (C12_DeviceUp(c, d) /\ MapGet(espBySsid, d).userID = Empty)'
        /\ (MapHas(espBySsid, d) /\ MapGet(espBySsid, d).ws # NullWs) =>
               LET c == MapGet(espBySsid, d).ws
                   owner == MapGet(espBySsid, d).userID
               IN  C12_DeviceUp(c, d) =>
                   /\ owner = Empty =>
                          \A f \in Conn \ {c} : AccStatus(f, u) =>
                              (/\ C12_DeviceUp(c, d)
                               /\ MapGet(espBySsid, d).userID = Empty
                               /\ C12_FrontendUp(f, u))'
                   /\ MapHas(frontendByUserId, u) =>
                          LET f == MapGet(frontendByUserId, u).ws
                          IN  (f # c /\ C12_FrontendUp(f, u)) =>
                              /\ (/\ owner = Empty /\ OwnedIdx(espBySsid, u) = {}
                                  /\ \E ws \in Conn : DeviceSelected(ws, d, u)) =>
                                     /\ (/\ C12_DeviceUp(c, d)
                                         /\ C12_FrontendUp(f, u)
                                         /\ C12_Owns(u, d))'
                                     /\ C12_Linked(c, f, d, u)
                              /\ (/\ C12_Owns(u, d)
                                  /\ \E ws \in Conn : ConnectionQuery(ws, u)) =>
                                     sent' = C12_Reply(f, d, "Connected")
                              /\ (C12_Owns(u, d) /\ Close(c)) =>
                                     (/\ MapGet(espBySsid, d).stats = "offline"
                                      /\ MapGet(espBySsid, d).ws = NullWs
                                      /\ C12_FrontendUp(f, u)
                                      /\ C12_Owns(u, d))'
        /\ (/\ MapHas(espBySsid, d) /\ MapGet(espBySsid, d).stats = "offline"
            /\ MapHas(frontendByUserId, u) /\ C12_Owns(u, d)) =>
               LET f == MapGet(frontendByUserId, u).ws
               IN  (/\ C12_FrontendUp(f, u)
                    /\ \E ws \in Conn : ConnectionQuery(ws, u)) =>
                       sent' = C12_Reply(f, d, "Not connected")]_vars

\* C12 witness: the end of the scenario: the device connection 1 has closed,
\* D1 is offline and owned by U1, and the query was answered on the frontend
\* connection 2 with D1 "Not connected".
C12_Witness ==
    /\ readyState[1] = CLOSED
    /\ espBySsid = <<EspOffline(EspOnline("D1", 1, "U1", 0))>>
    /\ C12_FrontendUp(2, "U1")
    /\ sent = C12_Reply(2, "D1", "Not connected")

\* the reply the claim describes for user u, given the Device Directory
C13_Expected(m, u) ==
    /\ m.type = "deviceConnection"
    /\ IF \E i \in 1..Len(espBySsid) : espBySsid[i].userID = u
       THEN \E i \in 1..Len(espBySsid) :
                /\ espBySsid[i].userID = u
                /\ m.dev = espBySsid[i].key
                /\ m.text = "Connected" <=> espBySsid[i].stats = "online"
                /\ m.text \in {"Connected", "Not connected"}
       ELSE m.dev = Empty /\ m.text = "Not connected"

\* C13: a connection{userID:U} query for a user with an open frontend
\* connection sends exactly one deviceConnection reply, to that connection
\* only, naming a device U owns with "Connected" exactly when it is online, or
\* the empty identifier with "Not connected" when U owns none; no directory
\* or registry state changes.
C13_QueryReply ==
    [][\A u \in UserIds :
           FrontendOpen(frontendByUserId, readyState, u) =>
               ((\E ws \in Conn : ConnectionQuery(ws, u)) =>
                    /\ Len(sent') = 1
                    /\ sent'[1].to = MapGet(frontendByUserId, u).ws
                    /\ C13_Expected(sent'[1].msg, u)
                    /\ UNCHANGED <<clients, espBySsid, frontendByUserId,
                                   clientType, readyState>>)]_vars

\* C13 witness: U1, online on connection 2, asked about its device D1 while
\* D1 was offline after a timeout or close, and was answered "Not connected"
\* while another device D2 is online.
C13_Witness ==
    /\ C12_FrontendUp(2, "U1")
    /\ Len(espBySsid) = 2
    /\ espBySsid[1].key = "D1" /\ espBySsid[1].userID = "U1"
    /\ espBySsid[1].stats = "offline"
    /\ espBySsid[2].stats = "online"
    /\ sent = <<Out(2, Msg("deviceConnection", "D1", Undefined, "Not connected"))>>

\* the owner the claim prescribes: the stored one when a session for d holds a
\* user identifier, otherwise the claimed one when supplied, otherwise empty
C14_Resolved(d, claimed) ==
    IF MapHas(espBySsid, d) /\ MapGet(espBySsid, d).userID \in UserIds
    THEN MapGet(espBySsid, d).userID
    ELSE IF claimed \in UserIds THEN claimed ELSE Empty

\* C14: reconnect(D, claimedOwner) on connection c sends exactly one sayHello
\* acknowledgement, to c only, and the owner it carries is the session's
\* resolved owner: the stored one if non-empty, else claimedOwner if
\* supplied, else empty.
C14_AckCarriesOwner ==
    [][\A c \in Conn, d \in Ssids, u \in UserInputs :
           Reconnect(c, d, u) =>
               /\ sent' = <<Out(c, Msg("connection", d, C14_Resolved(d, u), "sayHello"))>>
               /\ MapGet(espBySsid', d).userID = C14_Resolved(d, u)]_vars

\* C14 witness: D1, first announced without an owner on connection 1 and
\* heartbeating since (its stored owner is null), has reconnected on
\* connection 2 claiming U1, and the acknowledgement to connection 2 carries U1.
C14_Witness ==
    /\ sent = <<Out(2, Msg("connection", "D1", "U1", "sayHello"))>>
    /\ readyState[1] = CLOSING
    /\ MapGet(espBySsid, "D1") = EspOnline("D1", 2, "U1", 0)
    /\ clientType[1] = "esp"

\* C15: heartbeat(D) on connection c tags c as a device, sets c's registry
\* entry to (now, D), sets D's session online on c with lastHeartbeat now and
\* the owner it had when that was non-empty, and sends the online notice for
\* D to every open connection other than c and not to c.
C15_HeartbeatRefreshes ==
    [][\A c \in Conn, d \in Ssids :
           Heartbeat(c, d) =>
               /\ clientType'[c] = "esp"
               /\ MapHas(clients', c)
               /\ MapGet(clients', c).last = now /\ MapGet(clients', c).ssid = d
               /\ MapGet(espBySsid', d).stats = "online"
               /\ MapGet(espBySsid', d).last = now
               /\ MapGet(espBySsid', d).ws = c
               /\ (MapHas(espBySsid, d) /\ MapGet(espBySsid, d).userID \in UserIds) =>
                      MapGet(espBySsid', d).userID = MapGet(espBySsid, d).userID
               /\ \A x \in Conn :
                      (x # c /\ readyState[x] = OPEN) <=>
                          \E i \in 1..Len(sent') :
                              sent'[i] = Out(x, Msg("status", d, Undefined, "online"))
               /\ \A i \in 1..Len(sent') :
                      sent'[i].msg = Msg("status", d, Undefined, "online")
               /\ Len(sent') = Cardinality({x \in Conn \ {c} : readyState[x] = OPEN})]_vars

\* C15 witness: D1, owned by U1, timed out and then sent a heartbeat on
\* connection 2 at a later time: the session is online again with that time
\* and its owner, and the notice went to connection 1 only.
C15_Witness ==
    /\ now > DeviceTimeout
    /\ espBySsid = <<EspOnline("D1", 2, "U1", now)>>
    /\ MapHas(clients, 2) /\ MapGet(clients, 2) = ClientEntry(2, now, "D1")
    /\ clientType[2] = "esp"
    /\ sent = <<Out(1, Msg("status", "D1", Undefined, "online"))>>

\* what one logout{userID:u} leaves behind: no session for u, or an offline one
C16_LoggedOut(u) ==
    ~MapHas(frontendByUserId, u) \/ MapGet(frontendByUserId, u).status = "offline"

\* C16: logout is idempotent.  Every logout{userID:U} leaves U without a
\* session or with an offline one; a logout handled in such a state, as the
\* second of two in a row is, leaves the Frontend Directory as it was; and a
\* logout for a user without a session creates no record and changes nothing.
C16_LogoutIdempotent ==
    [][\A u \in UserInputs :
           (\E ws \in Conn : Logout(ws, u)) =>
               /\ C16_LoggedOut(u)'
               /\ C16_LoggedOut(u) => UNCHANGED frontendByUserId
               /\ MapKeys(frontendByUserId') = MapKeys(frontendByUserId)
               /\ ~MapHas(frontendByUserId, u) =>
                      /\ UNCHANGED <<frontendByUserId, espBySsid, clients,
                                     clientType, readyState>>
                      /\ sent' = <<>>]_vars

\* C16 witness: after three messages on connection 1, which the two logouts
\* after a registration are, U1's session is offline, still bound to the open
\* connection, and no other record exists.
C16_Witness ==
    /\ nmsg = MaxFrontendMsgs
    /\ frontendByUserId = <<FrontendEntry("U1", 1, "offline")>>
    /\ readyState = <<OPEN, CONNECTING, CONNECTING>>
    /\ now = 0

\* C17 as stated: once the close of a connection has been reconciled, no
\* FrontendSession with status online references it, also when several users
\* registered over that connection.
C17_NoOnlineSessionOnClosed ==
    \A i \in 1..Len(frontendByUserId) :
        frontendByUserId[i].status = "online" =>
            readyState[frontendByUserId[i].ws] # CLOSED

\* c_old has been terminated by an eviction (a reconnect's duplicate loop or
\* the device sweep; the frontend sweep terminates connections tagged
\* frontend) and its close event is still to come
C18_Evicted(c_old) ==
    readyState[c_old] = CLOSING /\ clientType[c_old] # "frontend"

\* C18: the close event of an evicted connection c_old, whenever it is
\* delivered, leaves the session of a device that is online on another
\* connection c_new as it is, and leaves c_new in the registry.
C18_LateCloseHarmless ==
    [][\A c_old \in Conn :
           (C18_Evicted(c_old) /\ Close(c_old)) =>
               \A d \in Ssids :
                   (/\ MapHas(espBySsid, d)
                    /\ MapGet(espBySsid, d).stats = "online"
                    /\ MapGet(espBySsid, d).ws # c_old
                    /\ MapHas(clients, MapGet(espBySsid, d).ws)) =>
                       /\ MapGet(espBySsid', d) = MapGet(espBySsid, d)
                       /\ MapHas(clients', MapGet(espBySsid, d).ws)
                       /\ MapGet(clients', MapGet(espBySsid, d).ws) =
                              MapGet(clients, MapGet(espBySsid, d).ws)]_vars

\* C18 witness: connection 1 announced D1 by heartbeat, a reconnect for D1 on
\* connection 2 evicted it, and its close event has just been handled: D1 is
\* online on connection 2, which is in the registry.
C18_Witness ==
    /\ now = 0 /\ nmsg = 2 /\ sent = <<>>
    /\ clientType[1] = "esp" /\ clientType[2] = "unknown"
    /\ readyState[1] = CLOSED /\ readyState[2] = OPEN
    /\ Len(espBySsid) = 1 /\ MapHas(espBySsid, "D1")
    /\ MapGet(espBySsid, "D1").ws = 2 /\ MapGet(espBySsid, "D1").stats = "online"
    /\ clients = <<ClientEntry(2, 0, "D1")>>

\* every DeviceSession is online with a connection or offline without one
C19_StatusMatchesConnection ==
    \A i \in 1..Len(espBySsid) :
        /\ espBySsid[i].stats \in {"online", "offline"}
        /\ espBySsid[i].stats = "online" <=> espBySsid[i].ws # NullWs

C20_OwnerUnique ==
    \A i, j \in 1..Len(espBySsid) :
        (espBySsid[i].userID \in UserIds /\ espBySsid[i].userID = espBySsid[j].userID)
            => i = j
====
